---- MODULE Spec2Model ----
(***************************************************************************)
(* A model of clean_web_article (main.go): the text normaliser cleanText,  *)
(* the goquery-based extraction heuristics (extractTitle, extractAuthor,   *)
(* extractMainText, gatherText, fetchAndExtract) and the mutex-protected   *)
(* rate limiter (checkRateLimit, the hourly reset goroutine).              *)
(*                                                                         *)
(* Strings are sequences of one-character strings; len() is Len.           *)
(***************************************************************************)
EXTENDS Integers, Sequences, FiniteSets, TLC

VARIABLES
    pc,         \* position of the sequential pipeline being modelled
    s,          \* cleanText: the argument string
    out1,       \* cleanText(s)
    out2,       \* cleanText(cleanText(s))
    limits,     \* the map limits: key -> requests counted in this window
    rateMu,     \* the mutex rateMu: 0 when free, else the goroutine holding it
    hpc,        \* per request goroutine: its position in extractHandler
    hkey,       \* per request goroutine: the local key of checkRateLimit
    hc,         \* per request goroutine: the local c of checkRateLimit
    hstatus,    \* per request goroutine: 200/429 once checkRateLimit has decided, else 0
    rpc,        \* the reset goroutine's position
    admitted,   \* history: key -> requests admitted since the last reset
    doc,        \* fetchAndExtract: the page at the URL, as goquery parses it
    title,      \* fetchAndExtract: the local title
    author,     \* fetchAndExtract: the local author
    content,    \* fetchAndExtract: the local content
    selections, \* extractMainText: doc.Find(sel) of each loop iteration
    gathered,   \* extractMainText: gatherText(selection) of each loop iteration
    raw,        \* extractMainText: best, as given to cleanText
    bestLen,    \* extractMainText: bestLen, as the function returns
    err,        \* fetchAndExtract: the error returned ("" for nil)
    article     \* fetchAndExtract: the Article returned (Nil for nil)

cleanVars == <<s, out1, out2>>
rateVars == <<limits, rateMu, hpc, hkey, hc, hstatus, rpc, admitted>>
extractVars == <<doc, title, author, content, selections, gathered, raw, bestLen, err, article>>
vars == <<pc, cleanVars, rateVars, extractVars>>

(***************************************************************************)
(* Bounds of the model.                                                    *)
(***************************************************************************)
MaxLen == 6     \* longest argument string given to cleanText
NumHandlers == 2 \* request goroutines running extractHandler concurrently
MaxBodyNodes == 4 \* most elements of a page of the scoring pages
MaxGatherNodes == 4 \* most elements of a page of the text-gathering pages
MaxSelNodes == 2 \* most elements of a page of the selector pages
MaxMetaNodes == 3 \* most elements of a page of the metadata pages

(***************************************************************************)
(* strings package                                                         *)
(***************************************************************************)
\* The characters strings.TrimSpace treats as white space (those the model uses).
WhiteSpace == {" ", "\n", "\r", "\t"}

\* The characters argument strings are built from.
Alphabet == {"a", " ", "\n", "\r", "\t"}

CR == <<"\r">>
NL2 == <<"\n", "\n">>
NL3 == <<"\n", "\n", "\n">>

Drop(str, n) == SubSeq(str, n + 1, Len(str))

HasPrefix(str, pre) ==
    /\ Len(pre) <= Len(str)
    /\ SubSeq(str, 1, Len(pre)) = pre

\* strings.Contains
Contains(str, sub) ==
    \E i \in 0..(Len(str) - Len(sub)) : SubSeq(str, i + 1, i + Len(sub)) = sub

\* strings.ReplaceAll for a non-empty old: non-overlapping matches, left to right.
RECURSIVE ReplaceAll(_, _, _)
ReplaceAll(str, old, new) ==
    IF Len(str) = 0 THEN <<>>
    ELSE IF HasPrefix(str, old)
         THEN new \o ReplaceAll(Drop(str, Len(old)), old, new)
         ELSE <<Head(str)>> \o ReplaceAll(Tail(str), old, new)

RECURSIVE TrimLeft(_)
TrimLeft(str) ==
    IF Len(str) > 0 /\ Head(str) \in WhiteSpace THEN TrimLeft(Tail(str)) ELSE str

RECURSIVE TrimRight(_)
TrimRight(str) ==
    IF Len(str) > 0 /\ str[Len(str)] \in WhiteSpace
    THEN TrimRight(SubSeq(str, 1, Len(str) - 1))
    ELSE str

\* strings.TrimSpace
TrimSpace(str) == TrimRight(TrimLeft(str))

(***************************************************************************)
(* cleanText                                                               *)
(***************************************************************************)
\* The loop "for strings.Contains(s, NL3) { s = ReplaceAll(s, NL3, NL2) }".
RECURSIVE collapseLoop(_)
collapseLoop(str) ==
    IF Contains(str, NL3) THEN collapseLoop(ReplaceAll(str, NL3, NL2)) ELSE str

\* One pass of the collapse in place of the loop.
cleanTextOnePass(str) ==
    LET t == TrimSpace(ReplaceAll(str, CR, <<>>))
    IN  IF Contains(t, NL3) THEN ReplaceAll(t, NL3, NL2) ELSE t

cleanText(str) ==
    collapseLoop(TrimSpace(ReplaceAll(str, CR, <<>>)))

\* A nil *Article; a returned Article a is <<a>>.
Nil == <<>>

\* fetchAndExtract not called: its locals and results unset.
ExtractIdle ==
    /\ doc = <<>>
    /\ title = <<>>
    /\ author = <<>>
    /\ content = <<>>
    /\ selections = <<>>
    /\ gathered = <<>>
    /\ raw = <<>>
    /\ bestLen = 0
    /\ err = ""
    /\ article = Nil

(***************************************************************************)
(* API keys and the rate limiter                                           *)
(***************************************************************************)
maxFreeRequestsPerHour == 100

validKeys == {"demo-key-123"}

\* The API keys a request may carry (X-API-Key header or key query parameter).
ApiKeys == {"", "demo-key-123", "wrong-key"}

Handlers == 1..NumHandlers
Resetter == NumHandlers + 1

\* limits[key] of a Go map: the zero value for an absent key.
Count(m, k) == IF k \in DOMAIN m THEN m[k] ELSE 0

\* m[k] = v of a Go map.
Store(m, k, v) == [x \in DOMAIN m \cup {k} |-> IF x = k THEN v ELSE m[x]]

EmptyMap == [x \in {} |-> 0]

checkKey(k) == k = "" \/ k \in validKeys

\* The key checkRateLimit counts under.
limitKey(k) == IF k = "" THEN "anon" ELSE k

LimitKeys == {limitKey(k) : k \in {a \in ApiKeys : checkKey(a)}}

\* The state of the limiter with no request in flight, right after start.
RateIdle ==
    /\ limits = EmptyMap
    /\ rateMu = 0
    /\ hpc = [h \in Handlers |-> "idle"]
    /\ hkey = [h \in Handlers |-> "-"]
    /\ hc = [h \in Handlers |-> 0]
    /\ hstatus = [h \in Handlers |-> 0]
    /\ rpc = "sleep"
    /\ admitted = [k \in LimitKeys |-> 0]

\* extractHandler up to the call of checkRateLimit. A request with an invalid
\* key is answered 401 and changes nothing of the limiter.
Receive(h, apiKey) ==
    /\ hpc[h] = "idle"
    /\ IF checkKey(apiKey)
       THEN /\ hpc' = [hpc EXCEPT ![h] = "lock"]
            /\ hkey' = [hkey EXCEPT ![h] = limitKey(apiKey)]
       ELSE UNCHANGED <<hpc, hkey>>
    /\ UNCHANGED <<limits, rateMu, hc, hstatus, rpc, admitted>>
    /\ UNCHANGED <<pc, cleanVars, extractVars>>

\* rateMu.Lock() taken without waiting for the holder.
LockNoWait(h) ==
    /\ hpc[h] = "lock"
    /\ rateMu' = h
    /\ hpc' = [hpc EXCEPT ![h] = "read"]
    /\ UNCHANGED <<limits, hkey, hc, hstatus, rpc, admitted>>
    /\ UNCHANGED <<pc, cleanVars, extractVars>>

\* rateMu.Lock() in checkRateLimit.
Lock(h) ==
    /\ hpc[h] = "lock"
    /\ rateMu = 0
    /\ rateMu' = h
    /\ hpc' = [hpc EXCEPT ![h] = "read"]
    /\ UNCHANGED <<limits, hkey, hc, hstatus, rpc, admitted>>
    /\ UNCHANGED <<pc, cleanVars, extractVars>>

\* c := limits[key]
ReadCount(h) ==
    /\ hpc[h] = "read"
    /\ hc' = [hc EXCEPT ![h] = Count(limits, hkey[h])]
    /\ hpc' = [hpc EXCEPT ![h] = "check"]
    /\ UNCHANGED <<limits, rateMu, hkey, hstatus, rpc, admitted>>
    /\ UNCHANGED <<pc, cleanVars, extractVars>>

\* if c >= maxFreeRequestsPerHour { return false }; limits[key] = c + 1; return true
CheckCount(h) ==
    /\ hpc[h] = "check"
    /\ IF hc[h] >= maxFreeRequestsPerHour
       THEN /\ hstatus' = [hstatus EXCEPT ![h] = 429]
            /\ UNCHANGED <<limits, admitted>>
       ELSE /\ limits' = Store(limits, hkey[h], hc[h] + 1)
            /\ admitted' = [admitted EXCEPT ![hkey[h]] = @ + 1]
            /\ hstatus' = [hstatus EXCEPT ![h] = 200]
    /\ hpc' = [hpc EXCEPT ![h] = "unlock"]
    /\ UNCHANGED <<rateMu, hkey, hc, rpc>>
    /\ UNCHANGED <<pc, cleanVars, extractVars>>

\* The deferred rateMu.Unlock() and the return to extractHandler, which answers
\* 429 or goes on to fetch and extract; neither touches the limiter's state.
Unlock(h) ==
    /\ hpc[h] = "unlock"
    /\ rateMu' = 0
    /\ hpc' = [hpc EXCEPT ![h] = "idle"]
    /\ hkey' = [hkey EXCEPT ![h] = "-"]
    /\ hc' = [hc EXCEPT ![h] = 0]
    /\ hstatus' = [hstatus EXCEPT ![h] = 0]
    /\ UNCHANGED <<limits, rpc, admitted>>
    /\ UNCHANGED <<pc, cleanVars, extractVars>>

\* time.Sleep(...) returns at the top of the hour.
ResetWake ==
    /\ rpc = "sleep"
    /\ rpc' = "lock"
    /\ UNCHANGED <<limits, rateMu, hpc, hkey, hc, hstatus, admitted>>
    /\ UNCHANGED <<pc, cleanVars, extractVars>>

ResetLock ==
    /\ rpc = "lock"
    /\ rateMu = 0
    /\ rateMu' = Resetter
    /\ rpc' = "assign"
    /\ UNCHANGED <<limits, hpc, hkey, hc, hstatus, admitted>>
    /\ UNCHANGED <<pc, cleanVars, extractVars>>

\* limits = map[string]int{}
ResetAssign ==
    /\ rpc = "assign"
    /\ limits' = EmptyMap
    /\ admitted' = [k \in LimitKeys |-> 0]
    /\ rpc' = "unlock"
    /\ UNCHANGED <<rateMu, hpc, hkey, hc, hstatus>>
    /\ UNCHANGED <<pc, cleanVars, extractVars>>

ResetUnlock ==
    /\ rpc = "unlock"
    /\ rateMu' = 0
    /\ rpc' = "sleep"
    /\ UNCHANGED <<limits, hpc, hkey, hc, hstatus, admitted>>
    /\ UNCHANGED <<pc, cleanVars, extractVars>>

InitRate ==
    /\ pc = "serve"
    /\ s = <<>>
    /\ out1 = <<>>
    /\ out2 = <<>>
    /\ RateIdle
    /\ ExtractIdle

NextRate ==
    \/ \E h \in Handlers, k \in ApiKeys : Receive(h, k)
    \/ \E h \in Handlers : Lock(h)
    \/ \E h \in Handlers : ReadCount(h)
    \/ \E h \in Handlers : CheckCount(h)
    \/ \E h \in Handlers : Unlock(h)
    \/ ResetWake
    \/ ResetLock
    \/ ResetAssign
    \/ ResetUnlock

SpecRate == InitRate /\ [][NextRate]_vars

(***************************************************************************)
(* The parsed document and goquery                                         *)
(*                                                                         *)
(* A document is the sequence of its element nodes in document order       *)
(* (pre-order); parent is the index of the parent element, 0 for the       *)
(* document node. text is the element's own text, read before its          *)
(* children. An absent attribute is the empty string, as AttrOr(_, "")     *)
(* and the attribute selectors treat it.                                   *)
(***************************************************************************)
El(tag, id, class, text) ==
    [tag |-> tag, id |-> id, class |-> class, rel |-> <<>>, name |-> <<>>,
     property |-> <<>>, content |-> <<>>, text |-> text, parent |-> 0]

Attr(node, a) ==
    CASE a = "id" -> node.id
      [] a = "class" -> node.class
      [] a = "rel" -> node.rel
      [] a = "name" -> node.name
      [] a = "property" -> node.property
      [] a = "content" -> node.content

\* strings.Fields: the white-space separated words of str, cur the word being read.
RECURSIVE FieldsFrom(_, _)
FieldsFrom(str, cur) ==
    IF Len(str) = 0 THEN (IF Len(cur) = 0 THEN {} ELSE {cur})
    ELSE IF Head(str) \in WhiteSpace
         THEN (IF Len(cur) = 0 THEN {} ELSE {cur}) \cup FieldsFrom(Tail(str), <<>>)
         ELSE FieldsFrom(Tail(str), Append(cur, Head(str)))

Fields(str) == FieldsFrom(str, <<>>)

\* A compound selector: tag ("" for any) and at most one attribute test.
\*   op "equals"   [attr='val']    op "contains"  [attr*='val']
\*   op "includes" .val (a word of the class attribute)   op "none"  no test
Sel(tag, attr, op, val) == [tag |-> tag, attr |-> attr, op |-> op, val |-> val]

\* cascadia: does the element match the compound selector
Matches(node, sel) ==
    /\ sel.tag = "" \/ node.tag = sel.tag
    /\ CASE sel.op = "none" -> TRUE
         [] sel.op = "equals" -> Attr(node, sel.attr) = sel.val
         [] sel.op = "contains" ->
                Len(sel.val) > 0 /\ Contains(Attr(node, sel.attr), sel.val)
         [] sel.op = "includes" -> sel.val \in Fields(Attr(node, sel.attr))

\* a is a proper ancestor of i (a = 0 is the document node)
RECURSIVE IsAncestor(_, _, _)
IsAncestor(d, a, i) ==
    IF i = 0 THEN FALSE
    ELSE d[i].parent = a \/ IsAncestor(d, a, d[i].parent)

\* The descendants of root matching one selector of the group, in document order.
RECURSIVE MatchAllFrom(_, _, _, _)
MatchAllFrom(d, root, group, i) ==
    IF i > Len(d) THEN <<>>
    ELSE (IF IsAncestor(d, root, i) /\ \E sel \in group : Matches(d[i], sel)
          THEN <<i>> ELSE <<>>) \o MatchAllFrom(d, root, group, i + 1)

InSeq(x, sq) == \E k \in 1..Len(sq) : sq[k] = x

\* goquery appendWithoutDuplicates
RECURSIVE AppendWithoutDuplicates(_, _)
AppendWithoutDuplicates(acc, more) ==
    IF Len(more) = 0 THEN acc
    ELSE AppendWithoutDuplicates(
            IF InSeq(Head(more), acc) THEN acc ELSE Append(acc, Head(more)),
            Tail(more))

\* Selection.Find: the matches below each root in turn, duplicates dropped.
RECURSIVE FindFrom(_, _, _, _)
FindFrom(d, roots, group, acc) ==
    IF Len(roots) = 0 THEN acc
    ELSE FindFrom(d, Tail(roots), group,
                  AppendWithoutDuplicates(acc, MatchAllFrom(d, Head(roots), group, 1)))

Find(d, roots, group) == FindFrom(d, roots, group, <<>>)

\* doc.Selection: the document node alone
DocSelection == <<0>>

\* doc.Find(sel)
DocFind(d, sel) == Find(d, DocSelection, {sel})

\* The text of node i: its own text and that of its descendants, in document order.
RECURSIVE NodeTextFrom(_, _, _)
NodeTextFrom(d, i, j) ==
    IF j > Len(d) THEN <<>>
    ELSE (IF j = i \/ IsAncestor(d, i, j) THEN d[j].text ELSE <<>>)
         \o NodeTextFrom(d, i, j + 1)

NodeText(d, i) == NodeTextFrom(d, i, 1)

\* Selection.Text(): the texts of all nodes of the selection, concatenated.
RECURSIVE SelText(_, _)
SelText(d, sel) ==
    IF Len(sel) = 0 THEN <<>> ELSE NodeText(d, Head(sel)) \o SelText(d, Tail(sel))

\* Selection.First()
First(sel) == IF Len(sel) = 0 THEN <<>> ELSE <<Head(sel)>>

\* Selection.AttrOr(a, ""): the attribute of the first node
AttrOr(d, sel, a) == IF Len(sel) = 0 THEN <<>> ELSE Attr(d[Head(sel)], a)

\* strings.Join
RECURSIVE Join(_, _)
Join(parts, sep) ==
    IF Len(parts) = 0 THEN <<>>
    ELSE IF Len(parts) = 1 THEN Head(parts)
    ELSE Head(parts) \o sep \o Join(Tail(parts), sep)

(***************************************************************************)
(* gatherText                                                              *)
(***************************************************************************)
ParagraphSel ==
    {Sel("p", "", "none", <<>>), Sel("h1", "", "none", <<>>),
     Sel("h2", "", "none", <<>>), Sel("h3", "", "none", <<>>)}

\* The body of the Each callback, over the found elements in turn.
RECURSIVE gatherParts(_, _)
gatherParts(d, found) ==
    IF Len(found) = 0 THEN <<>>
    ELSE LET t == TrimSpace(NodeText(d, Head(found)))
         IN  (IF t # <<>> THEN <<t>> ELSE <<>>) \o gatherParts(d, Tail(found))

\* gatherText joining with a single line break.
gatherTextOneBreak(d, sel) == Join(gatherParts(d, Find(d, sel, ParagraphSel)), <<"\n">>)

gatherText(d, sel) == Join(gatherParts(d, Find(d, sel, ParagraphSel)), NL2)

(***************************************************************************)
(* extractTitle, extractAuthor                                             *)
(***************************************************************************)
OgTitle == <<"o", "g", ":", "t", "i", "t", "l", "e">>
AuthorStr == <<"a", "u", "t", "h", "o", "r">>
BylineStr == <<"b", "y", "l", "i", "n", "e">>

extractTitle(d) ==
    LET og == TrimSpace(AttrOr(d, DocFind(d, Sel("meta", "property", "equals", OgTitle)), "content"))
        tt == TrimSpace(SelText(d, DocFind(d, Sel("title", "", "none", <<>>))))
    IN  IF og # <<>> THEN og
        ELSE IF tt # <<>> THEN tt
        ELSE <<>>

\* sels of extractAuthor
authorSels ==
    << Sel("", "class", "includes", AuthorStr),
       Sel("", "class", "includes", BylineStr),
       Sel("", "rel", "equals", AuthorStr) >>

\* The loop over sels without First(): the text of every match.
RECURSIVE authorLoopAll(_, _)
authorLoopAll(d, i) ==
    IF i > Len(authorSels) THEN <<>>
    ELSE LET a == TrimSpace(SelText(d, DocFind(d, authorSels[i])))
         IN  IF a # <<>> THEN a ELSE authorLoopAll(d, i + 1)

\* The loop "for _, s := range sels" from its i-th iteration on.
RECURSIVE authorLoop(_, _)
authorLoop(d, i) ==
    IF i > Len(authorSels) THEN <<>>
    ELSE LET a == TrimSpace(SelText(d, First(DocFind(d, authorSels[i]))))
         IN  IF a # <<>> THEN a ELSE authorLoop(d, i + 1)

extractAuthor(d) ==
    LET a == TrimSpace(AttrOr(d, DocFind(d, Sel("meta", "name", "equals", AuthorStr)), "content"))
    IN  IF a # <<>> THEN a ELSE authorLoop(d, 1)

(***************************************************************************)
(* extractMainText                                                         *)
(***************************************************************************)
ContentStr == <<"c", "o", "n", "t", "e", "n", "t">>
PostStr == <<"p", "o", "s", "t">>
EntryContentStr == <<"e", "n", "t", "r", "y", "-">> \o ContentStr
ArticleBodyStr == <<"a", "r", "t", "i", "c", "l", "e", "-", "b", "o", "d", "y">>
PostBodyStr == PostStr \o <<"-", "b", "o", "d", "y">>

\* The candidates with the class test on class words: div.content.
candidatesClassWord ==
    << Sel("article", "", "none", <<>>),
       Sel("main", "", "none", <<>>),
       Sel("div", "id", "contains", ContentStr),
       Sel("div", "class", "includes", ContentStr),
       Sel("", "class", "includes", PostStr),
       Sel("", "class", "includes", EntryContentStr),
       Sel("", "class", "includes", ArticleBodyStr),
       Sel("", "class", "includes", PostBodyStr) >>

candidates ==
    << Sel("article", "", "none", <<>>),
       Sel("main", "", "none", <<>>),
       Sel("div", "id", "contains", ContentStr),
       Sel("div", "class", "contains", ContentStr),
       Sel("", "class", "includes", PostStr),
       Sel("", "class", "includes", EntryContentStr),
       Sel("", "class", "includes", ArticleBodyStr),
       Sel("", "class", "includes", PostBodyStr) >>

\* The loop over candidates with "l >= bestLen" for "l > bestLen".
RECURSIVE candidateLoopLastWins(_, _, _)
candidateLoopLastWins(d, i, b) ==
    IF i > Len(candidates) THEN b
    ELSE LET selection == DocFind(d, candidates[i])
         IN  IF Len(selection) = 0 THEN candidateLoopLastWins(d, i + 1, b)
             ELSE LET text == gatherText(d, selection)
                      l == Len(TrimSpace(text))
                  IN  IF l >= b[2] THEN candidateLoopLastWins(d, i + 1, <<text, l>>)
                      ELSE candidateLoopLastWins(d, i + 1, b)

\* The loop over candidates from its i-th iteration on; b is <<best, bestLen>>.
RECURSIVE candidateLoop(_, _, _)
candidateLoop(d, i, b) ==
    IF i > Len(candidates) THEN b
    ELSE LET selection == DocFind(d, candidates[i])
         IN  IF Len(selection) = 0 THEN candidateLoop(d, i + 1, b)
             ELSE LET text == gatherText(d, selection)
                      l == Len(TrimSpace(text))
                  IN  IF l > b[2] THEN candidateLoop(d, i + 1, <<text, l>>)
                      ELSE candidateLoop(d, i + 1, b)

\* The div loop with ">=" for ">".
RECURSIVE divLoopLastWins(_, _, _)
divLoopLastWins(d, divs, b) ==
    IF Len(divs) = 0 THEN b
    ELSE LET t == gatherText(d, <<Head(divs)>>)
         IN  IF Len(TrimSpace(t)) >= b[2]
             THEN divLoopLastWins(d, Tail(divs), <<t, Len(TrimSpace(t))>>)
             ELSE divLoopLastWins(d, Tail(divs), b)

\* doc.Find("div").Each(...) over the divs still to visit; b is <<best, bestLen>>.
RECURSIVE divLoop(_, _, _)
divLoop(d, divs, b) ==
    IF Len(divs) = 0 THEN b
    ELSE LET t == gatherText(d, <<Head(divs)>>)
         IN  IF Len(TrimSpace(t)) > b[2]
             THEN divLoop(d, Tail(divs), <<t, Len(TrimSpace(t))>>)
             ELSE divLoop(d, Tail(divs), b)

\* extractMainText without its final fallback to the whole document.
selectBodyNoDocFallback(d) ==
    LET b1 == candidateLoop(d, 1, <<<<>>, 0>>)
    IN  IF b1[2] = 0
        THEN divLoop(d, DocFind(d, Sel("div", "", "none", <<>>)), b1)
        ELSE b1

\* best and bestLen as extractMainText holds them when it calls cleanText.
selectBody(d) ==
    LET b1 == candidateLoop(d, 1, <<<<>>, 0>>)
        b2 == IF b1[2] = 0
              THEN divLoop(d, DocFind(d, Sel("div", "", "none", <<>>)), b1)
              ELSE b1
    IN  IF b2[2] = 0 THEN <<gatherText(d, DocSelection), 0>> ELSE b2

extractMainText(d) == cleanText(selectBody(d)[1])

(***************************************************************************)
(* fetchAndExtract                                                         *)
(***************************************************************************)
\* The ways the fetch ends: the page read, client.Do failing, a status of 400
\* or more, the body read failing. (Parsing a string never fails.)
FetchOutcomes == {"ok", "transport error", "bad upstream status", "read error"}

\* Lines 119-147: the request, the status check, the read and the parse.
Fetch(outcome) ==
    /\ pc = "fetch"
    /\ IF outcome = "ok"
       THEN /\ pc' = "parse"
            /\ UNCHANGED <<err, article>>
       ELSE /\ pc' = "done"
            /\ err' = outcome
            /\ article' = Nil
    /\ UNCHANGED <<doc, title, author, content, selections, gathered, raw, bestLen>>
    /\ UNCHANGED <<cleanVars, rateVars>>

\* title := extractTitle(doc)
ExtractTitle ==
    /\ pc = "title"
    /\ title' = extractTitle(doc)
    /\ pc' = "author"
    /\ UNCHANGED <<doc, author, content, selections, gathered, raw, bestLen, err, article>>
    /\ UNCHANGED <<cleanVars, rateVars>>

\* author := extractAuthor(doc)
ExtractAuthor ==
    /\ pc = "author"
    /\ author' = extractAuthor(doc)
    /\ pc' = "content"
    /\ UNCHANGED <<doc, title, content, selections, gathered, raw, bestLen, err, article>>
    /\ UNCHANGED <<cleanVars, rateVars>>

\* content := extractMainText(doc)
ExtractMainText ==
    /\ pc = "content"
    /\ content' = extractMainText(doc)
    /\ selections' = [i \in 1..Len(candidates) |-> DocFind(doc, candidates[i])]
    /\ gathered' = [i \in 1..Len(candidates) |->
                        gatherText(doc, DocFind(doc, candidates[i]))]
    /\ raw' = selectBody(doc)[1]
    /\ bestLen' = selectBody(doc)[2]
    /\ pc' = "check"
    /\ UNCHANGED <<doc, title, author, err, article>>
    /\ UNCHANGED <<cleanVars, rateVars>>

\* The test of the content without the error return.
CheckContentAlwaysOk ==
    /\ pc = "check"
    /\ article' = <<[Title |-> title, Author |-> author, Content |-> content]>>
    /\ err' = ""
    /\ pc' = "done"
    /\ UNCHANGED <<doc, title, author, content, selections, gathered, raw, bestLen>>
    /\ UNCHANGED <<cleanVars, rateVars>>

\* Lines 153-162: no content is an error, else the Article.
CheckContent ==
    /\ pc = "check"
    /\ IF TrimSpace(content) = <<>>
       THEN /\ err' = "no article content detected"
            /\ article' = Nil
       ELSE /\ err' = ""
            /\ article' = <<[Title |-> title, Author |-> author, Content |-> content]>>
    /\ pc' = "done"
    /\ UNCHANGED <<doc, title, author, content, selections, gathered, raw, bestLen>>
    /\ UNCHANGED <<cleanVars, rateVars>>

(***************************************************************************)
(* The pages fetched: what html.Parse can build from the element kinds of  *)
(* a palette.                                                              *)
(***************************************************************************)
VoidTags == {"meta"}
TextOnlyTags == {"title"}
InlineTags == {"span", "a"}
HeadingTags == {"h1", "h2", "h3", "h4"}

\* Node i and its ancestors (none for the document node).
RECURSIVE PathTo(_, _)
PathTo(d, i) == IF i = 0 THEN {} ELSE {i} \cup PathTo(d, d[i].parent)

\* May the parser put an element of tag ct next, as a child of p (0: the document node)
CanAttach(d, p, ct) ==
    \/ p = 0
    \/ /\ d[p].tag \notin VoidTags \cup TextOnlyTags
       /\ ct \in VoidTags \cup TextOnlyTags => FALSE
       /\ ct \in HeadingTags => d[p].tag \notin HeadingTags
       /\ ct \notin InlineTags => \A a \in PathTo(d, p) : d[a].tag # "p"

\* Where the parser may put an element of tag ct next: under the last element,
\* one of its ancestors, or the document node.
AttachPoints(d, ct) ==
    {q \in {0} \cup (IF Len(d) = 0 THEN {} ELSE PathTo(d, Len(d))) : CanAttach(d, q, ct)}

Meta(property, name, cont) ==
    [tag |-> "meta", id |-> <<>>, class |-> <<>>, rel |-> <<>>, name |-> name,
     property |-> property, content |-> cont, text |-> <<>>, parent |-> 0]

Link(rel, text) ==
    [tag |-> "a", id |-> <<>>, class |-> <<>>, rel |-> rel, name |-> <<>>,
     property |-> <<>>, content |-> <<>>, text |-> text, parent |-> 0]

\* Pages for the scoring of extractMainText.
BodyPalette ==
    { El("article", <<>>, <<>>, <<>>),
      El("main", <<>>, <<>>, <<>>),
      El("div", <<>>, <<>>, <<>>),
      El("p", <<>>, <<>>, <<"a">>),
      El("h1", <<>>, <<>>, <<" ", "b", " ">>),
      El("p", <<>>, <<>>, <<"c", "\r", "\n", "c">>),
      El("p", <<>>, <<>>, <<" ">>) }

\* Pages for gatherText.
GatherPalette ==
    { El("main", <<>>, <<>>, <<>>),
      El("p", <<>>, <<>>, <<"a">>),
      El("p", <<>>, <<>>, <<" ", "b", "\n">>),
      El("h1", <<>>, <<>>, <<"h">>),
      El("h2", <<>>, <<>>, <<"i">>),
      El("h3", <<>>, <<>>, <<" ">>),
      El("h4", <<>>, <<>>, <<"x">>) }

\* Pages for the candidate selectors.
SelPalette ==
    { El("article", <<>>, <<>>, <<>>),
      El("main", <<>>, <<>>, <<>>),
      El("div", <<>>, <<>>, <<>>),
      El("div", <<"m", "y">> \o ContentStr, <<>>, <<>>),
      El("div", <<>>, <<"n", "o", "n">> \o ContentStr, <<>>),
      El("div", <<>>, <<"C", "o", "n", "t", "e", "n", "t">>, <<>>),
      El("section", ContentStr, <<>>, <<>>),
      El("section", <<>>, ContentStr, <<>>),
      El("div", <<>>, <<"x", " ">> \o PostStr, <<>>),
      El("div", <<>>, PostStr \o <<"a", "l">>, <<>>),
      El("section", <<>>, EntryContentStr, <<>>),
      El("div", <<>>, EntryContentStr, <<>>),
      El("section", <<>>, ArticleBodyStr, <<>>),
      El("section", <<>>, PostBodyStr, <<>>),
      El("p", <<>>, <<>>, <<"a">>) }

\* Pages for extractTitle and extractAuthor.
MetaPalette ==
    { Meta(OgTitle, <<>>, <<" ", "T">>),
      Meta(OgTitle, <<>>, <<" ">>),
      Meta(<<>>, AuthorStr, <<"M", " ">>),
      Meta(<<>>, AuthorStr, <<>>),
      El("title", <<>>, <<>>, <<"x", " ">>),
      El("title", <<>>, <<>>, <<"\n">>),
      El("span", <<>>, AuthorStr, <<"A">>),
      El("span", <<>>, AuthorStr, <<" ">>),
      El("span", <<>>, BylineStr \o <<" ", "x">>, <<" ", "B">>),
      Link(AuthorStr, <<"R">>),
      El("p", <<>>, <<>>, <<"a">>) }

InitExtract ==
    /\ pc = "fetch"
    /\ ExtractIdle
    /\ s = <<>>
    /\ out1 = <<>>
    /\ out2 = <<>>
    /\ RateIdle

\* goquery.NewDocumentFromReader: the parser reads one more element of the page.
ParseElement(palette, max) ==
    /\ pc = "parse"
    /\ Len(doc) < max
    /\ \E k \in palette : \E p \in AttachPoints(doc, k.tag) :
            doc' = Append(doc, [k EXCEPT !.parent = p])
    /\ UNCHANGED <<pc, title, author, content, selections, gathered, raw, bestLen, err, article>>
    /\ UNCHANGED <<cleanVars, rateVars>>

\* goquery.NewDocumentFromReader returns the document.
ParseDone ==
    /\ pc = "parse"
    /\ pc' = "title"
    /\ UNCHANGED extractVars
    /\ UNCHANGED <<cleanVars, rateVars>>

NextExtract(palette, max) ==
    \/ \E outcome \in FetchOutcomes : Fetch(outcome)
    \/ ParseElement(palette, max)
    \/ ParseDone
    \/ ExtractTitle
    \/ ExtractAuthor
    \/ ExtractMainText
    \/ CheckContent

SpecBody == InitExtract /\ [][NextExtract(BodyPalette, MaxBodyNodes)]_vars
SpecGather == InitExtract /\ [][NextExtract(GatherPalette, MaxGatherNodes)]_vars
SpecSel == InitExtract /\ [][NextExtract(SelPalette, MaxSelNodes)]_vars
SpecMeta == InitExtract /\ [][NextExtract(MetaPalette, MaxMetaNodes)]_vars

(***************************************************************************)
(* Specification SpecClean: cleanText applied to every bounded string,     *)
(* then applied again to its own result.                                   *)
(***************************************************************************)
RECURSIVE StringsUpTo(_)
StringsUpTo(n) ==
    IF n = 0 THEN {<<>>}
    ELSE LET shorter == StringsUpTo(n - 1)
         IN  shorter \cup {Append(t, c) : t \in {u \in shorter : Len(u) = n - 1}, c \in Alphabet}

InitClean ==
    /\ pc = "clean"
    /\ s \in StringsUpTo(MaxLen)
    /\ out1 = <<>>
    /\ out2 = <<>>
    /\ RateIdle
    /\ ExtractIdle

CleanOnce ==
    /\ pc = "clean"
    /\ out1' = cleanText(s)
    /\ pc' = "cleaned"
    /\ UNCHANGED <<s, out2, rateVars, extractVars>>

CleanAgain ==
    /\ pc = "cleaned"
    /\ out2' = cleanText(out1)
    /\ pc' = "recleaned"
    /\ UNCHANGED <<s, out1, rateVars, extractVars>>

NextClean == CleanOnce \/ CleanAgain

SpecClean == InitClean /\ [][NextClean]_vars

\* Longest run of consecutive newlines in str.
RECURSIVE RunFrom(_, _)
RunFrom(str, i) ==
    IF i <= Len(str) /\ str[i] = "\n" THEN 1 + RunFrom(str, i + 1) ELSE 0

Normalized(str) ==
    /\ \A i \in 1..Len(str) : str[i] # "\r"
    /\ TrimSpace(str) = str
    /\ \A i \in 1..Len(str) : RunFrom(str, i) <= 2

FourNewlines == <<"a", "\n", "\n", "\n", "\n", "a">>

\* C7: cleanText is idempotent, and its result holds no carriage return, no
\* leading or trailing white space and no run of three or more newlines; four
\* newlines between text become exactly two.
C7_CleanTextIdempotent ==
    /\ pc \in {"cleaned", "recleaned"} =>
        /\ Normalized(out1)
        /\ (s = FourNewlines => out1 = <<"a", "\n", "\n", "a">>)
    /\ pc = "recleaned" => out2 = out1

\* C7 witness: text, four newlines, text has been cleaned and cleaned again.
C7_Witness ==
    /\ pc = "recleaned"
    /\ s = FourNewlines
    /\ out2 = <<"a", "\n", "\n", "a">>

(***************************************************************************)
(* The rate limiter (SpecRate)                                             *)
(***************************************************************************)
\* C8: under every interleaving of requests and resets, each key's counter and
\* the number of requests admitted for it since the last reset are equal and
\* at most maxFreeRequestsPerHour; a denied request finds the counter full and
\* leaves it as it was, an admitted one adds one; after the reset's assignment
\* every key has its full quota.
C8_RateLimit ==
    /\ DOMAIN limits \subseteq LimitKeys
    /\ \A k \in LimitKeys :
        /\ Count(limits, k) <= maxFreeRequestsPerHour
        /\ admitted[k] <= maxFreeRequestsPerHour
        /\ Count(limits, k) = admitted[k]
    /\ \A h \in Handlers : hpc[h] = "unlock" =>
        /\ hstatus[h] = 429 =>
            /\ hc[h] >= maxFreeRequestsPerHour
            /\ Count(limits, hkey[h]) = hc[h]
        /\ hstatus[h] = 200 => Count(limits, hkey[h]) = hc[h] + 1
        /\ hstatus[h] \in {200, 429}
    /\ rpc = "unlock" => \A k \in LimitKeys : Count(limits, k) = 0

\* C8 witness: a request is denied for a key that used its whole quota while
\* the other key has not.
C8_Witness ==
    \E h \in Handlers :
        /\ hpc[h] = "unlock"
        /\ hstatus[h] = 429
        /\ admitted[hkey[h]] = maxFreeRequestsPerHour
        /\ \E k \in LimitKeys : admitted[k] < maxFreeRequestsPerHour

(***************************************************************************)
(* Extraction (SpecBody, SpecGather, SpecSel, SpecMeta)                    *)
(***************************************************************************)
NoContent == "no article content detected"

\* extractMainText has run on the parsed page.
Extracted == pc \in {"check", "done"} /\ Len(selections) > 0

\* fetchAndExtract has returned after parsing the page.
Returned == pc = "done" /\ err \notin FetchOutcomes

\* C1: an Article is returned only with content that is not blank, and a
\* page whose normalized body text is blank yields an error and no Article.
C1_NonEmptyContent ==
    /\ pc = "done" =>
        /\ (article = Nil) <=> (err # "")
        /\ article # Nil =>
            /\ article[1].Content = content
            /\ TrimSpace(article[1].Content) # <<>>
    /\ Returned /\ TrimSpace(content) = <<>> => err = NoContent /\ article = Nil

\* C1 witness: an Article returned whose content normalization changed.
C1_Witness ==
    /\ pc = "done"
    /\ article # Nil
    /\ article[1].Content # raw

\* The candidates with at least one match, and the trimmed length of each text.
Matched == {i \in 1..Len(selections) : Len(selections[i]) > 0}
TLen(i) == Len(TrimSpace(gathered[i]))

\* i has the greatest trimmed length of the matched candidates and is the
\* earliest of those that have it.
IsWinner(i) ==
    /\ i \in Matched
    /\ \A j \in Matched : TLen(j) < TLen(i) \/ (TLen(j) = TLen(i) /\ i <= j)

\* C2 as stated: whenever some selector matches, the text returned is that of
\* the longest candidate, the earliest on ties.
C2_Original ==
    Extracted /\ Matched # {} => \E i \in Matched : IsWinner(i) /\ raw = gathered[i]

\* C2 amended: whenever some matching candidate gathers text that is not
\* blank, the text returned is that of the candidate of greatest trimmed
\* length, the earliest in the list on ties.
C2_LongestCandidate ==
    Extracted /\ (\E i \in Matched : TLen(i) > 0) =>
        \E i \in Matched : IsWinner(i) /\ raw = gathered[i] /\ bestLen = TLen(i)

\* C2 witness: a later candidate strictly longer than an earlier one was kept.
C2_Witness ==
    /\ Extracted
    /\ {1, 2} \subseteq Matched
    /\ TLen(1) > 0
    /\ TLen(2) > TLen(1)
    /\ raw = gathered[2]

\* The elements the i-th candidate selects: with anyTag, any element passes the
\* id and class substring tests; without it, div elements only.
ClassWord(n, w) == w \in Fields(n.class)

CandidateMatch(i, n, anyTag) ==
    CASE i = 1 -> n.tag = "article"
      [] i = 2 -> n.tag = "main"
      [] i = 3 -> (anyTag \/ n.tag = "div") /\ Contains(n.id, ContentStr)
      [] i = 4 -> (anyTag \/ n.tag = "div") /\ Contains(n.class, ContentStr)
      [] i = 5 -> ClassWord(n, PostStr)
      [] i = 6 -> ClassWord(n, EntryContentStr)
      [] i = 7 -> ClassWord(n, ArticleBodyStr)
      [] i = 8 -> ClassWord(n, PostBodyStr)

\* sq lists exactly the members of S, in increasing order.
ListsInOrder(sq, S) ==
    /\ {sq[k] : k \in 1..Len(sq)} = S
    /\ \A k \in 1..(Len(sq) - 1) : sq[k] < sq[k + 1]

SelectionsAre(anyTag) ==
    /\ Len(selections) = 8
    /\ \A i \in 1..8 :
         ListsInOrder(selections[i],
                      {k \in 1..Len(doc) : CandidateMatch(i, doc[k], anyTag)})

\* C3 as stated: the eight selections are those of article, main, any element
\* whose id contains "content", any element whose class contains "content",
\* .post, .entry-content, .article-body, .post-body, in this order.
C3_Original == Extracted => SelectionsAre(TRUE)

\* C3 amended: as stated, but the id and class substring candidates select div
\* elements only; the substring test is literal and case-sensitive: a div of
\* class "noncontent" is selected, a div of class "Content" is not.
C3_CandidateList ==
    Extracted =>
        /\ SelectionsAre(FALSE)
        /\ \A k \in 1..Len(doc) :
            /\ doc[k].tag = "div" /\ doc[k].class = <<"n", "o", "n", "c", "o", "n", "t", "e", "n", "t">>
                    => InSeq(k, selections[4])
            /\ doc[k].class = <<"C", "o", "n", "t", "e", "n", "t">>
                    => ~InSeq(k, selections[4])
            /\ doc[k].tag # "div" => ~InSeq(k, selections[3]) /\ ~InSeq(k, selections[4])

\* C3 witness: a div of class "noncontent" holding the paragraph was selected
\* by the fourth candidate and its text returned.
C3_Witness ==
    /\ Extracted
    /\ Len(doc) = 2
    /\ doc[1].class = <<"n", "o", "n", "c", "o", "n", "t", "e", "n", "t">>
    /\ selections[4] = <<1>>
    /\ raw = <<"a">>
    /\ bestLen = 1

\* A p, h1, h2 or h3 element whose text is not blank.
IsParagraph(n) == n.tag \in {"p", "h1", "h2", "h3"}
NonBlankParagraphs(d) ==
    {k \in 1..Len(d) : IsParagraph(d[k]) /\ TrimSpace(NodeText(d, k)) # <<>>}

\* C4: fetchAndExtract fails with the no-content error exactly when the page
\* was parsed and holds no p, h1, h2 or h3 element with text that is not blank.
C4_NoContentIff ==
    pc = "done" =>
        ((err = NoContent) <=> (err \notin FetchOutcomes /\ NonBlankParagraphs(doc) = {}))

\* C4 witness: neither a candidate nor a div gathered text, and the paragraph
\* outside them made the Article.
C4_Witness ==
    /\ Returned
    /\ bestLen = 0
    /\ \E k \in 1..Len(doc) : doc[k].tag = "div"
    /\ article # Nil

\* The first of the elements S of the page, 0 if there is none.
FirstIn(S) == IF S = {} THEN 0 ELSE CHOOSE k \in S : \A j \in S : k <= j

TextOfFirst(S) == IF S = {} THEN <<>> ELSE TrimSpace(NodeText(doc, FirstIn(S)))

ContentOfFirst(S) == IF S = {} THEN <<>> ELSE TrimSpace(doc[FirstIn(S)].content)

IsOgTitle(n) == n.tag = "meta" /\ n.property = OgTitle
IsTitle(n) == n.tag = "title"
IsAuthorMeta(n) == n.tag = "meta" /\ n.name = AuthorStr
IsAuthorClass(n) == ClassWord(n, AuthorStr)
IsBylineClass(n) == ClassWord(n, BylineStr)
IsRelAuthor(n) == n.rel = AuthorStr

OgTitleMetas == {k \in 1..Len(doc) : IsOgTitle(doc[k])}
TitleElements == {k \in 1..Len(doc) : IsTitle(doc[k])}
AuthorMetas == {k \in 1..Len(doc) : IsAuthorMeta(doc[k])}
AuthorClassElements == {k \in 1..Len(doc) : IsAuthorClass(doc[k])}
BylineClassElements == {k \in 1..Len(doc) : IsBylineClass(doc[k])}
RelAuthorElements == {k \in 1..Len(doc) : IsRelAuthor(doc[k])}

TitleDone == pc \in {"author", "content", "check", "done"} /\ err \notin FetchOutcomes
AuthorDone == pc \in {"content", "check", "done"} /\ err \notin FetchOutcomes

\* C5: the title is the trimmed content of meta[property=og:title] when that
\* is not blank, else the trimmed text of the first title element when that
\* is not blank, else empty.
C5_TitleFirstElement ==
    TitleDone =>
        title = IF ContentOfFirst(OgTitleMetas) # <<>> THEN ContentOfFirst(OgTitleMetas)
                ELSE TextOfFirst(TitleElements)

\* C6: the author is the trimmed content of meta[name=author] when that is not
\* blank, else the first non-blank trimmed text among the first .author, the
\* first .byline and the first [rel=author] element, in that order, else empty.
C6_AuthorChain ==
    AuthorDone =>
        author = IF ContentOfFirst(AuthorMetas) # <<>> THEN ContentOfFirst(AuthorMetas)
                 ELSE IF TextOfFirst(AuthorClassElements) # <<>> THEN TextOfFirst(AuthorClassElements)
                 ELSE IF TextOfFirst(BylineClassElements) # <<>> THEN TextOfFirst(BylineClassElements)
                 ELSE TextOfFirst(RelAuthorElements)

\* C6 witness: no author meta content, a blank first .author element followed
\* by another that is not blank, and the author taken from the .byline element.
C6_Witness ==
    /\ AuthorDone
    /\ ContentOfFirst(AuthorMetas) = <<>>
    /\ \E j, k \in 1..Len(doc) :
        /\ j < k
        /\ IsAuthorClass(doc[j]) /\ doc[j].text = <<" ">>
        /\ IsAuthorClass(doc[k]) /\ doc[k].text = <<"A">>
    /\ author = <<"B">>

\* The divs of the page and the trimmed length of the text each gathers alone.
Divs == {k \in 1..Len(doc) : doc[k].tag = "div"}
DivLen(k) == Len(TrimSpace(gatherText(doc, <<k>>)))

IsBestDiv(k) ==
    /\ k \in Divs
    /\ \A j \in Divs : DivLen(j) < DivLen(k) \/ (DivLen(j) = DivLen(k) /\ k <= j)

\* C9: when some candidate gathered text that is not blank the result is a
\* candidate's text whatever the divs hold; otherwise, when a div gathers such
\* text, the result is the text of one div alone, of greatest trimmed length,
\* the first in document order on ties.
C9_DivFallback ==
    Extracted =>
        /\ (\E i \in Matched : TLen(i) > 0) => \E i \in Matched : raw = gathered[i]
        /\ (\A i \in Matched : TLen(i) = 0) /\ (\E k \in Divs : DivLen(k) > 0) =>
            \E k \in Divs :
                /\ IsBestDiv(k)
                /\ raw = gatherText(doc, <<k>>)
                /\ bestLen = DivLen(k)

\* C9 witness: no candidate matched, two divs gathered different texts of the
\* same length, and the first one's text was kept.
C9_Witness ==
    /\ Extracted
    /\ Matched = {}
    /\ \E j, k \in Divs :
        /\ j < k
        /\ DivLen(j) = DivLen(k)
        /\ DivLen(j) > 0
        /\ gatherText(doc, <<j>>) # gatherText(doc, <<k>>)
        /\ raw = gatherText(doc, <<j>>)

\* The p, h1, h2 and h3 elements below one of the roots whose text is not
\* blank, and their trimmed texts joined by two newlines from the k-th on.
Gatherable(roots) ==
    {k \in NonBlankParagraphs(doc) : \E r \in 1..Len(roots) : IsAncestor(doc, roots[r], k)}

RECURSIVE JoinedFrom(_, _, _)
JoinedFrom(S, k, first) ==
    IF k > Len(doc) THEN <<>>
    ELSE IF k \in S
         THEN (IF first THEN <<>> ELSE <<"\n", "\n">>)
              \o TrimSpace(NodeText(doc, k)) \o JoinedFrom(S, k + 1, FALSE)
         ELSE JoinedFrom(S, k + 1, first)

\* C10: the text gathered from a set of roots is the trimmed text of every
\* p, h1, h2, h3 below a root, each once and in document order, blank ones
\* left out, joined by exactly two newlines; it is empty exactly when there
\* is none.
C10_GatherText ==
    Extracted =>
        /\ \A i \in Matched :
            /\ gathered[i] = JoinedFrom(Gatherable(selections[i]), 1, TRUE)
            /\ (gathered[i] = <<>>) <=> (Gatherable(selections[i]) = {})
        /\ bestLen = 0 => raw = JoinedFrom(NonBlankParagraphs(doc), 1, TRUE)

\* C10 witness: two main elements, one inside the other, were the roots, and
\* the texts of two elements below them were joined.
C10_Witness ==
    /\ Extracted
    /\ Len(selections[2]) = 2
    /\ IsAncestor(doc, selections[2][1], selections[2][2])
    /\ Cardinality(Gatherable(selections[2])) = 2
    /\ gathered[2] # <<>>
====
